---- MODULE Spec2Model ----
(***************************************************************************)
(* Model of the command engine of src/src/control/mod.rs: the frame        *)
(* reassembler (pipe_usb_read), the decoder (Command::from_bytes), the     *)
(* dispatch queue (COMMAND_CHANNEL), the controller (Controller::run) with *)
(* its response encoding (CommandError::to_bytes), and the session loop    *)
(* (usb_task).                                                             *)
(*                                                                         *)
(* A byte on the wire is a record [v, f, k]: v is the value the firmware   *)
(* sees; f and k are history annotations (the number of the host frame the *)
(* byte belongs to and its offset in that frame) that no firmware operator *)
(* reads.  Rust slices are 0-based, sequences here are 1-based.            *)
(***************************************************************************)
EXTENDS Integers, Sequences, FiniteSets, TLC

(* ------------------------- program constants -------------------------- *)

I2C_COMMAND  == 5
GPIO_COMMAND == 6
LED_COMMAND  == 8
BUF_SIZE     == 4098
CHANNEL_CAP  == 8
OUT_CAP      == 260
MIN_HEADER   == 5
MAX_PACKET   == 64

(* ------------------------------ bounds -------------------------------- *)

MaxFramesChunk == 2
MaxFramesBurst == 9
MaxFramesExec  == 2
MaxFramesSession == 2
MaxFramesFault == 3
MaxFramesIds   == 1
MaxFramesHuge  == 1
HugeLen        == 4100
MaxConnects    == 2
WireCap        == 1

(* ------------------------- integer conversions ------------------------ *)

\* `x as u16` followed by to_le_bytes()
U16LE(n) == << (n % 65536) % 256, (n % 65536) \div 256 >>

\* u16::from_le_bytes
FromLE(b0, b1) == b0 + 256 * b1

\* `b as i8`
AsI8(b) == IF b >= 128 THEN b - 256 ELSE b

\* faulty variant of AsU8: a negative value is clamped to 0
AsU8Clamp(i) == IF i < 0 THEN 0 ELSE i

\* `i as u8`
AsU8(i) == i % 256

Vals(s) == [i \in DOMAIN s |-> s[i].v]

(* ---------------------------- CommandError ---------------------------- *)

ErrTimeout        == [kind |-> "Timeout", text |-> << >>]
ErrInvalid        == [kind |-> "Invalid", text |-> << >>]
ErrBufferOverflow == [kind |-> "BufferOverflow", text |-> << >>]
ErrMessage(t)     == [kind |-> "Message", text |-> t]
NoError           == [kind |-> "None", text |-> << >>]

ErrorCode(e) ==
    CASE e.kind = "Timeout"        -> 16
      [] e.kind = "Invalid"        -> 17
      [] e.kind = "BufferOverflow" -> 18
      [] OTHER                     -> 255

\* The output Vec<u8, 260>: extend_from_slice(..).unwrap() and push(..).unwrap()
\* panic when the capacity is exceeded.
Fits(bytes) == Len(bytes) <= OUT_CAP

ToBytesBody(e) ==
    << 0, 0, 255, ErrorCode(e) >> \o (IF e.kind = "Message" THEN e.text ELSE << >>)

\* faulty variant of ToBytes: the length field is never rewritten
ToBytesNoLength(e) == ToBytesBody(e)

ToBytes(e) ==
    LET body == ToBytesBody(e)
    IN  U16LE(Len(body)) \o SubSeq(body, 3, Len(body))


(* ------------------------------ Command ------------------------------- *)

Families == {"I2c", "Gpio", "Led"}

MkCommand(id, bus, inner) == [id |-> id, bus |-> bus, inner |-> inner]

ErrorInner(e) == [fam |-> "Error", data |-> << >>, err |-> e]

\* faulty variant of SyntheticError: the error Command is given target_id 0
SyntheticErrorZero(e) == MkCommand(0, 0, ErrorInner(e))

\* Command { id: -1, bus: 0, inner: CommandInner::Error(err) }
SyntheticError(e) == MkCommand(-1, 0, ErrorInner(e))

NoCommand == MkCommand(0, 0, [fam |-> "None", data |-> << >>, err |-> NoError])

\* The family decoders i2c/gpio/led::Command::from_bytes are not among the
\* sources.  Modelled from their contract (decode(payload) -> Result): a payload
\* whose first byte is the unassigned opcode 0xEE is refused as Invalid, every
\* other payload decodes to a family command that keeps the payload.
UNKNOWN_OP == 238

FamilyFromBytes(fam, payload) ==
    IF Len(payload) > 0 /\ payload[1] = UNKNOWN_OP
    THEN [ok |-> FALSE, panic |-> FALSE, cmd |-> NoCommand, err |-> ErrInvalid]
    ELSE [ok |-> TRUE, panic |-> FALSE, err |-> NoError,
          cmd |-> MkCommand(0, 0, [fam |-> fam, data |-> payload, err |-> NoError])]

TagFamily(tag) ==
    CASE tag = I2C_COMMAND  -> "I2c"
      [] tag = GPIO_COMMAND -> "Gpio"
      [] tag = LED_COMMAND  -> "Led"
      [] OTHER              -> "None"

\* Command::from_bytes(buf): buf[0] and buf[2] are indexed unconditionally, so a
\* slice shorter than 3 bytes panics.
FromBytes(b) ==
    IF Len(b) < 3
    THEN [ok |-> FALSE, panic |-> TRUE, cmd |-> NoCommand, err |-> NoError]
    ELSE LET id  == AsI8(b[1])
             fam == TagFamily(b[3])
             r   == FamilyFromBytes(fam, SubSeq(b, 4, Len(b)))
         IN  IF fam = "None"
             THEN [ok |-> FALSE, panic |-> FALSE, cmd |-> NoCommand, err |-> ErrInvalid]
             ELSE IF r.ok
                  THEN [r EXCEPT !.cmd = MkCommand(id, b[2], r.cmd.inner)]
                  ELSE r

(* -------------------------- response encoding ------------------------- *)

\* Controller::run, Ok(res) arm
EncodeOk(id, res) == U16LE(Len(res)) \o << AsU8(id) >> \o res

\* Controller::run, Err(err) arm: to_bytes, then buf[2] = cmd.id as u8
EncodeErr(id, e) == [ToBytes(e) EXCEPT ![3] = AsU8(id)]

Encode(id, res) ==
    IF res.ok THEN EncodeOk(id, res.data) ELSE EncodeErr(id, res.err)

EncodePanics(id, res) ==
    IF res.ok THEN ~Fits(<< 0, 0, 0 >> \o res.data) ELSE ~Fits(ToBytesBody(res.err))

(* -------------------------- reassembly buffer ------------------------- *)

\* buf is kept up to its high-water mark; the bytes of the 4098-byte array beyond
\* it are the zeros of its initialisation.
Zero == [v |-> 0, f |-> 0, k |-> 0]

BufAt(b, i) == IF i <= Len(b) THEN b[i] ELSE Zero

Max(a, b) == IF a >= b THEN a ELSE b

\* faulty variant of ReadInto: every packet lands at the front of the buffer
ReadIntoFront(b, nr, pkt) ==
    [i \in 1..Max(Len(b), Len(pkt)) |-> IF i <= Len(pkt) THEN pkt[i] ELSE BufAt(b, i)]

\* rx.read_packet(&mut buf[num_read..]): the packet lands at offset num_read
ReadInto(b, nr, pkt) ==
    LET n == Max(Len(b), nr + Len(pkt))
    IN  SubSeq([i \in 1..n |-> IF i > nr /\ i <= nr + Len(pkt) THEN pkt[i - nr]
                                                               ELSE BufAt(b, i)], 1, n)

\* u16::from_le_bytes(buf[0..2])
DeclaredLen(b) == FromLE(BufAt(b, 1).v, BufAt(b, 2).v)

\* num_read >= 5 and num_read >= to_read
FrameReady(b, nr) == nr >= MIN_HEADER /\ nr >= DeclaredLen(b)

\* &buf[2..to_read] panics when to_read < 2
SlicePanics(b) == DeclaredLen(b) < 2

\* Command::from_bytes(&buf[2..to_read]), Err mapped to the synthetic command
Decode(b) ==
    LET r == FromBytes(Vals(SubSeq(b, 3, DeclaredLen(b))))
    IN  IF r.ok THEN r.cmd ELSE SyntheticError(r.err)

DecodePanics(b) ==
    SlicePanics(b) \/ FromBytes(Vals(SubSeq(b, 3, DeclaredLen(b)))).panic

\* faulty variant of ShiftBuf: the excess is copied from the front of the buffer
ShiftBufFront(b, nr) == SubSeq(b, 1, nr - DeclaredLen(b))

\* new_buf[..excess] = buf[to_read..to_read + excess]; buf = new_buf
ShiftBuf(b, nr) == SubSeq(b, DeclaredLen(b) + 1, nr)

\* faulty variant of AfterTimeout: the fill count survives the timeout
AfterTimeoutKeep(nr) == nr

\* the Err(TimeoutError) arm leaves the 'read loop; the outer loop sets num_read = 0
AfterTimeout(nr) == 0

(* ---------------------------- dispatch queue -------------------------- *)

\* faulty variant of ChanFull: a queue without a capacity
ChanNeverFull(c) == FALSE

\* COMMAND_CHANNEL: Channel<_, Command, 8>; send suspends while it is full
ChanFull(c) == Len(c) >= CHANNEL_CAP

\* faulty variant of ChanSend: the newest Command goes to the front
ChanSendFront(c, cmd) == << cmd >> \o c

ChanSend(c, cmd) == Append(c, cmd)

ChanHead(c) == Head(c)

ChanRest(c) == Tail(c)

(* --------------------------- the environment -------------------------- *)

\* Request frames the host may send: [length u16 LE][target_id][bus][tag][payload]
FrameLed     == << 5, 0, 1, 3, 8 >>
FrameGpio    == << 6, 0, 2, 0, 6, 1 >>
FrameI2c     == << 7, 0, 130, 1, 5, 16, 170 >>
FrameBadTag  == << 5, 0, 3, 0, 238 >>
FrameRefused == << 6, 0, 4, 2, 8, 238 >>
FrameShort   == << 4, 0, 9, 0 >>

\* the n-th frame of a burst: an LED frame whose target_id is n
BurstFrame(n) == << 5, 0, n, 0, 8 >>

\* a GPIO frame whose target_id byte is b
IdBytes == 0..255

IdFrame(b) == << 6, 0, b, 0, 6, 1 >>

\* a frame whose declared length is HugeLen, more than the buffer holds
FrameHuge == U16LE(HugeLen) \o << 1, 0, 6 >> \o [i \in 1..(HugeLen - 5) |-> 255]

\* Seven profiles of the environment: "chunk" (any frame, any split into packets,
\* stalls), "burst" (many whole-frame packets, to fill the queue), "exec"
\* (whole-frame packets, every kind of execution result), "session" (whole-frame
\* packets, the host closing and reopening the port), "fault" (whole-frame
\* packets, frames shorter than a header among valid ones), "ids" (a frame with
\* any target_id byte) and "huge" (a frame longer than the buffer, in packets of
\* the maximum size).
Scenarios == {"chunk", "burst", "exec", "session", "fault", "ids", "huge"}

\* the frames the host may choose from when it has already composed n
FrameMenu(s, n) ==
    CASE s = "chunk"   -> {FrameLed, FrameI2c}
      [] s = "burst"   -> {BurstFrame(n + 1)}
      [] s = "exec"    -> {FrameGpio, FrameI2c, FrameBadTag, FrameRefused}
      [] s = "session" -> {FrameLed, FrameI2c}
      [] s = "ids"     -> IF n = 0 THEN {IdFrame(b) : b \in IdBytes} ELSE {IdFrame(255)}
      [] s = "huge"    -> {FrameHuge}
      [] OTHER         -> {FrameGpio, FrameShort}

MaxFrames(s) ==
    CASE s = "chunk"   -> MaxFramesChunk
      [] s = "burst"   -> MaxFramesBurst
      [] s = "exec"    -> MaxFramesExec
      [] s = "session" -> MaxFramesSession
      [] s = "ids"     -> MaxFramesIds
      [] s = "huge"    -> MaxFramesHuge
      [] OTHER         -> MaxFramesFault

Min(a, b) == IF a <= b THEN a ELSE b

\* the bytes of frame number f, annotated
Tagged(F, f) == [i \in 1..Len(F) |-> [v |-> F[i], f |-> f, k |-> i - 1]]

\* number of leading bytes of q that belong to the frame of its first byte
RestOfFrame(q) ==
    IF q = << >> THEN 0
    ELSE Cardinality({i \in 1..Len(q) : q[i].f = q[1].f})

\* sizes of the next packet: in "chunk" one byte, the rest of the current frame,
\* or everything composed; otherwise the rest of the frame, as far as a packet
\* holds it
PacketSizes(s, q) ==
    IF s = "chunk"
    THEN {n \in {1, RestOfFrame(q), Len(q)} : n >= 1 /\ n <= Min(Len(q), MAX_PACKET)}
    ELSE {Min(RestOfFrame(q), MAX_PACKET)} \ {0}

\* Execution results of the family handlers (ControllerCommand::handle), which are
\* not among the sources: Ok(payload of at most 256 bytes) or Err(CommandError).
Ok(data) == [ok |-> TRUE, data |-> data, err |-> NoError]

Err(e) == [ok |-> FALSE, data |-> << >>, err |-> e]

\* a message text of 257 bytes: with the 4 bytes before it, one more than OUT_CAP
LongText == [i \in 1..(OUT_CAP - 3) |-> 120]

HandleResults(s) ==
    CASE s = "exec" ->
            {Ok(<< >>), Ok(<< 1 >>), Ok(<< 7, 200 >>), Err(ErrTimeout), Err(ErrBufferOverflow),
             Err(ErrMessage(<< 120 >>)), Err(ErrMessage(<< 110, 111 >>)),
             Err(ErrMessage(LongText))}
      [] s = "ids" -> {Ok(<< 1 >>), Err(ErrTimeout)}
      [] OTHER     -> {Ok(<< 1 >>)}

\* the match on cmd.inner in Controller::run
ExecResults(s, cmd) ==
    IF cmd.inner.fam = "Error" THEN {Err(cmd.inner.err)} ELSE HandleResults(s)

(* -------------------------------- state ------------------------------- *)

VARIABLES
    scenario,   \* profile of the environment, fixed
    connected,  \* the control endpoint is enabled (the host holds the port open)
    nConn,      \* connections made so far
    hostQ,      \* bytes the host has composed and not yet put on the wire
    stalling,   \* the host gave up a frame and sends nothing until a read times out
    wire,       \* packets sent by the host and not yet read
    task,       \* usb_task: "wait_connection" or "join"
    rx,         \* pipe_usb_read: "idle", "read", "send", "returned"
    buf,        \* reassembly buffer
    num_read,   \* its fill count
    pending,    \* the Command whose send is suspended (rx = "send")
    chan,       \* COMMAND_CHANNEL
    ctrl,       \* Controller::run: "idle", "receive", "handle", "write"
    cur,        \* the Command being executed
    res,        \* its execution result
    out,        \* the encoded response about to be written
    periph,     \* the operations the family handlers have applied to the peripherals
    panicked,   \* a panic halted the firmware
    frames,     \* history: the frames the host composed, in order
    aborted,    \* history: frames the host did not send completely
    lastRead,   \* history: annotation of the last byte the reassembler read
    reads,      \* history: reads that filled the buffer since it was last emptied
    droppedF,   \* history: frames of which a timeout discarded a byte
    late,       \* history: the host sent bytes of a frame after a timeout cut it
    multi,      \* history: some packet carried bytes of two frames
    enq,        \* history: Commands enqueued, with the annotation of their first byte
    txlog       \* history: responses handed to write_packet

hostVars == << connected, nConn, hostQ, stalling, wire, frames, aborted, late, multi >>
rxVars   == << rx, buf, num_read, pending, lastRead, reads, droppedF, enq >>
ctrlVars == << ctrl, cur, res, out, periph, txlog >>
vars == << scenario, connected, nConn, hostQ, stalling, wire, task, rx, buf, num_read,
           pending, chan, ctrl, cur, res, out, periph, panicked, frames, aborted,
           lastRead, reads, droppedF, late, multi, enq, txlog >>

Init ==
    /\ scenario \in Scenarios
    /\ connected = FALSE
    /\ nConn = 0
    /\ hostQ = << >>
    /\ stalling = FALSE
    /\ wire = << >>
    /\ task = "wait_connection"
    /\ rx = "idle"
    /\ buf = << >>
    /\ num_read = 0
    /\ pending = NoCommand
    /\ chan = << >>
    /\ ctrl = "idle"
    /\ cur = NoCommand
    /\ res = Ok(<< >>)
    /\ out = << >>
    /\ periph = << >>
    /\ panicked = FALSE
    /\ frames = << >>
    /\ aborted = {}
    /\ lastRead = Zero
    /\ reads = 0
    /\ droppedF = {}
    /\ late = FALSE
    /\ multi = FALSE
    /\ enq = << >>
    /\ txlog = << >>

(* ------------------------------- the host ----------------------------- *)

HostConnect ==
    /\ ~panicked /\ ~connected /\ nConn < MaxConnects
    /\ connected' = TRUE
    /\ nConn' = nConn + 1
    /\ UNCHANGED << scenario, hostQ, stalling, wire, task, rxVars, chan, ctrlVars,
                    panicked, frames, aborted, late, multi >>

Undelivered == {hostQ[i].f : i \in 1..Len(hostQ)}
                 \cup UNION {{wire[j][i].f : i \in 1..Len(wire[j])} : j \in 1..Len(wire)}

HostDisconnect ==
    /\ ~panicked /\ connected
    /\ scenario = "session"
    /\ connected' = FALSE
    /\ hostQ' = << >>
    /\ wire' = << >>
    /\ stalling' = FALSE
    /\ aborted' = aborted \cup Undelivered
    /\ UNCHANGED << scenario, nConn, task, rxVars, chan, ctrlVars, panicked, frames,
                    late, multi >>

HostCompose(F) ==
    /\ ~panicked /\ connected
    /\ Len(frames) < MaxFrames(scenario)
    /\ IF scenario = "chunk" THEN RestOfFrame(hostQ) = Len(hostQ) ELSE hostQ = << >>
    /\ frames' = Append(frames, F)
    /\ hostQ' = hostQ \o Tagged(F, Len(frames) + 1)
    /\ UNCHANGED << scenario, connected, nConn, stalling, wire, task, rxVars, chan,
                    ctrlVars, panicked, aborted, late, multi >>

HostSend(n) ==
    /\ ~panicked /\ connected /\ ~stalling
    /\ Len(wire) < WireCap
    /\ LET pkt == SubSeq(hostQ, 1, n)
       IN  /\ wire' = Append(wire, pkt)
           /\ hostQ' = SubSeq(hostQ, n + 1, Len(hostQ))
           /\ late' = (late \/ \E i \in 1..n : pkt[i].f \in droppedF)
           /\ multi' = (multi \/ pkt[1].f # pkt[n].f)
    /\ UNCHANGED << scenario, connected, nConn, stalling, task, rxVars, chan, ctrlVars,
                    panicked, frames, aborted >>

\* the host gives up the frame it is in the middle of and stays silent for longer
\* than the read timeout
HostAbort ==
    /\ ~panicked /\ connected /\ ~stalling
    /\ scenario = "chunk"
    /\ hostQ # << >> /\ hostQ[1].k > 0
    /\ hostQ' = SubSeq(hostQ, RestOfFrame(hostQ) + 1, Len(hostQ))
    /\ aborted' = aborted \cup {hostQ[1].f}
    /\ stalling' = TRUE
    /\ UNCHANGED << scenario, connected, nConn, wire, task, rxVars, chan, ctrlVars,
                    panicked, frames, late, multi >>

(* ------------------------------ usb_task ------------------------------ *)

\* loop { rx.wait_connection().await; join(pipe_usb_read(&mut rx), controller.run()).await }
\* join completes when both futures have completed.
UsbTask ==
    /\ ~panicked
    /\ IF task = "wait_connection"
       THEN /\ connected
            /\ task' = "join"
            /\ rx' = "read"
            /\ ctrl' = "receive"
       ELSE /\ rx = "returned" /\ ctrl = "returned"
            /\ task' = "wait_connection"
            /\ rx' = "idle"
            /\ ctrl' = "idle"
    /\ buf' = << >>
    /\ num_read' = 0
    /\ reads' = 0
    /\ UNCHANGED << scenario, hostVars, pending, chan, cur, res, out, periph, panicked,
                    lastRead, droppedF, enq, txlog >>

(* ---------------------------- pipe_usb_read --------------------------- *)

\* history entry of an enqueued Command: the annotation of the first byte of the
\* bytes it was decoded from, whether they came one byte per read, and whether
\* they are one frame's, in place
EnqEntry(cmd, b, n) ==
    [cmd |-> cmd, f |-> b[1].f, k |-> b[1].k, bytewise |-> (n = DeclaredLen(b)),
     pure |-> \A i \in 1..DeclaredLen(b) : b[i].f = b[1].f /\ b[i].k = i - 1]

\* A read completes with a packet.  The handler runs on to its next suspension:
\* the next read, or the send on a full channel.  A packet larger than the rest of
\* the buffer is EndpointError::BufferOverflow, which panics in the conversion.
ReadPacket ==
    /\ ~panicked /\ rx = "read" /\ connected
    /\ wire # << >>
    /\ LET pkt == Head(wire)
           nr  == num_read + Len(pkt)
           b   == ReadInto(buf, num_read, pkt)
       IN  /\ wire' = Tail(wire)
           /\ IF Len(pkt) > BUF_SIZE - num_read
              THEN /\ panicked' = TRUE
                   /\ UNCHANGED << rx, buf, num_read, pending, chan, lastRead, reads, enq >>
              ELSE /\ lastRead' = pkt[Len(pkt)]
                   /\ IF ~FrameReady(b, nr)
                      THEN /\ buf' = b
                           /\ num_read' = nr
                           /\ reads' = reads + 1
                           /\ UNCHANGED << rx, pending, chan, panicked, enq >>
                      ELSE IF DecodePanics(b)
                      THEN /\ buf' = b
                           /\ num_read' = nr
                           /\ reads' = reads + 1
                           /\ panicked' = TRUE
                           /\ UNCHANGED << rx, pending, chan, enq >>
                      ELSE IF ChanFull(chan)
                      THEN /\ buf' = b
                           /\ num_read' = nr
                           /\ reads' = reads + 1
                           /\ rx' = "send"
                           /\ pending' = Decode(b)
                           /\ UNCHANGED << chan, panicked, enq >>
                      ELSE /\ chan' = ChanSend(chan, Decode(b))
                           /\ enq' = Append(enq, EnqEntry(Decode(b), b, reads + 1))
                           /\ buf' = ShiftBuf(b, nr)
                           /\ num_read' = nr - DeclaredLen(b)
                           /\ reads' = 0
                           /\ UNCHANGED << rx, pending, panicked >>
    /\ UNCHANGED << scenario, connected, nConn, hostQ, stalling, task, ctrlVars,
                    frames, aborted, droppedF, late, multi >>

\* the suspended COMMAND_CHANNEL.send(cmd).await completes; the handler keeps the
\* excess bytes and goes back to reading
SendCmd ==
    /\ ~panicked /\ rx = "send"
    /\ ~ChanFull(chan)
    /\ chan' = ChanSend(chan, pending)
    /\ enq' = Append(enq, EnqEntry(pending, buf, reads))
    /\ buf' = ShiftBuf(buf, num_read)
    /\ num_read' = num_read - DeclaredLen(buf)
    /\ reads' = 0
    /\ pending' = NoCommand
    /\ rx' = "read"
    /\ UNCHANGED << scenario, hostVars, task, ctrlVars, panicked, lastRead, droppedF >>

\* faulty variant of DropTimeoutError: the Timeout error is reported as a Command
SendTimeoutError(c) == Append(c, SyntheticError(ErrTimeout))

\* let _error = CommandError::Timeout: the error is built and dropped, the queue
\* stays as it is
DropTimeoutError(c) == c

\* with_timeout(4 ms) expires with no packet: the partial frame is given up.
\* In "huge" the host streams the packets of a frame without a pause of 4 ms.
Timeout ==
    /\ ~panicked /\ rx = "read" /\ connected
    /\ wire = << >>
    /\ scenario = "huge" => hostQ = << >>
    /\ num_read' = AfterTimeout(num_read)
    /\ reads' = 0
    /\ droppedF' = droppedF \cup {buf[i].f : i \in 1..num_read}
    /\ stalling' = FALSE
    /\ chan' = DropTimeoutError(chan)
    /\ UNCHANGED << scenario, connected, nConn, hostQ, wire, task, rx, buf, pending,
                    ctrlVars, panicked, frames, aborted, lastRead, late, multi, enq >>

\* read_packet fails with EndpointError::Disabled: return Err(Disconnected)
ReadDisconnected ==
    /\ ~panicked /\ rx = "read" /\ ~connected
    /\ rx' = "returned"
    /\ UNCHANGED << scenario, hostVars, task, buf, num_read, pending, chan, ctrlVars,
                    panicked, lastRead, reads, droppedF, enq >>

(* --------------------------- Controller::run -------------------------- *)

\* faulty variant of AfterReceive: the handler is started and not awaited
AfterReceiveSpawn == "receive"

\* cmd.handle(self).await: the loop goes on when the handler has returned
AfterReceive == "handle"

\* faulty variant of AfterWrite: a response that was not sent is written again
AfterWriteRetry(sent) == IF sent THEN "receive" ELSE "write"

\* let _ = ...: whatever write_packet returns, the loop goes back to receive
AfterWrite(sent) == "receive"

\* what a family handler applies to the peripherals it borrows from the Controller
PeriphOp(cmd) == [fam |-> cmd.inner.fam, bus |-> cmd.bus, data |-> cmd.inner.data]

CtrlReceive ==
    /\ ~panicked /\ ctrl = "receive"
    /\ chan # << >>
    /\ cur' = ChanHead(chan)
    /\ chan' = ChanRest(chan)
    /\ ctrl' = AfterReceive
    /\ UNCHANGED << scenario, hostVars, task, rxVars, res, out, periph, txlog, panicked >>

\* the handler returns; the response is encoded and write_packet is started
CtrlHandle ==
    /\ ~panicked /\ ctrl = "handle"
    /\ periph' = IF cur.inner.fam \in Families THEN Append(periph, PeriphOp(cur)) ELSE periph
    /\ \E r \in ExecResults(scenario, cur) :
          /\ res' = r
          /\ IF EncodePanics(cur.id, r)
             THEN panicked' = TRUE /\ UNCHANGED << ctrl, out >>
             ELSE out' = Encode(cur.id, r) /\ ctrl' = "write" /\ UNCHANGED panicked
    /\ UNCHANGED << scenario, hostVars, task, rxVars, chan, cur, txlog >>

\* let _ = self.tx.write_packet(&buf).await: a failure is ignored
CtrlWrite ==
    /\ ~panicked /\ ctrl = "write"
    /\ txlog' = Append(txlog, [cmd |-> cur, res |-> res, bytes |-> out, sent |-> connected])
    /\ ctrl' = AfterWrite(connected)
    /\ UNCHANGED << scenario, hostVars, task, rxVars, chan, cur, res, out, periph, panicked >>

(* --------------------------- specification ---------------------------- *)

Host ==
    \/ HostConnect
    \/ HostDisconnect
    \/ \E F \in FrameMenu(scenario, Len(frames)) : HostCompose(F)
    \/ \E n \in PacketSizes(scenario, hostQ) : HostSend(n)
    \/ HostAbort

Reassembler == ReadPacket \/ SendCmd \/ Timeout \/ ReadDisconnected

Controller == CtrlReceive \/ CtrlHandle \/ CtrlWrite

Firmware == UsbTask \/ Reassembler \/ Controller

Next == Host \/ Firmware

Spec == Init /\ [][Next]_vars

\* The executor polls every woken future, a timer that is armed fires, and a
\* handler that was entered returns; the host is under no obligation.
FairSpec == Spec /\ WF_vars(UsbTask) /\ WF_vars(Reassembler) /\ WF_vars(Controller)

(* ------------------------- vocabulary of the claims ------------------- *)

\* a request frame whose length field is its byte count, at least the header
WellFormed(F) == Len(F) >= MIN_HEADER /\ FromLE(F[1], F[2]) = Len(F)

\* a valid frame: well formed, and its header and payload decode
ValidFrame(F) == WellFormed(F) /\ FromBytes(SubSeq(F, 3, Len(F))).ok

\* cmd carries the target_id, bus and payload written in bytes 2, 3 and 5.. of F
Carries(cmd, F) ==
    /\ cmd.inner.fam \in Families
    /\ AsU8(cmd.id) = F[3]
    /\ cmd.bus = F[4]
    /\ cmd.inner.data = SubSeq(F, 6, Len(F))

\* number of host frames whose last byte the reassembler has read
FullyRead ==
    IF lastRead.f = 0 THEN 0
    ELSE IF lastRead.k = Len(frames[lastRead.f]) - 1 THEN lastRead.f ELSE lastRead.f - 1

\* the Commands the reassembler has produced: enqueued, or suspended in send
Produced == [i \in 1..Len(enq) |-> enq[i].cmd] \o (IF rx = "send" THEN << pending >> ELSE << >>)

AllValid == \A i \in 1..Len(frames) : ValidFrame(frames[i])

(* -------------------------------- C1 ---------------------------------- *)

\* C1: once the read has failed with a disconnect (pipe_usb_read has returned),
\* the Controller loop ends too and usb_task is back at wait_connection, from
\* where the next connection starts both loops afresh.
C1_SessionRestarts == (rx = "returned") ~> (task = "wait_connection")

(* -------------------------------- C2 ---------------------------------- *)

\* C2: when only valid frames are sent, whole and back to back, no byte of a
\* complete frame is discarded: a read timeout never empties a buffer that holds
\* a complete frame.
C2_NoCompleteFrameDiscarded ==
    [][ (AllValid /\ aborted = {} /\ ~late /\ rx = "read" /\ rx' = "read"
            /\ num_read > 0 /\ num_read' = 0 /\ enq' = enq)
        => ~FrameReady(buf, num_read) ]_vars

(* -------------------------------- C3 ---------------------------------- *)

\* C3: every success response is [length u16 LE][target_id][payload] with
\* length = |payload| + 3, the byte count of the whole frame.
C3_SuccessLengthIsTotal ==
    \A i \in 1..Len(txlog) :
        txlog[i].res.ok =>
            txlog[i].bytes = U16LE(Len(txlog[i].res.data) + 3)
                               \o << AsU8(txlog[i].cmd.id) >> \o txlog[i].res.data

(* -------------------------------- C4 ---------------------------------- *)

\* C4: a read that completes a frame (filled >= 5 and filled >= declared length)
\* yields exactly one Command, enqueued or waiting for a free slot: the decoded
\* Command, or the error Command with target_id = -1.
C4_EveryFullFrameEnqueued ==
    [][ (rx = "read" /\ connected /\ connected' /\ wire # << >> /\ wire' = Tail(wire)
            /\ FrameReady(ReadInto(buf, num_read, Head(wire)), num_read + Len(Head(wire))))
        => /\ Len(Produced') = Len(Produced) + 1
           /\ LET c == Produced'[Len(Produced')]
              IN  c.inner.fam \in Families \/ (c.inner.fam = "Error" /\ c.id = -1) ]_vars

(* -------------------------------- C5 ---------------------------------- *)

\* every frame sent so far is valid and was sent whole, each packet held bytes of
\* one frame only, and no read timed out with bytes in the buffer
CleanRun == AllValid /\ aborted = {} /\ ~multi /\ droppedF = {}

\* C5: when valid frames arrive split into packets in any way and no read times
\* out, the reassembler produces exactly one Command per frame read to its last
\* byte, carrying that frame's target_id, bus and payload.
C5_ChunkedReassembly ==
    CleanRun =>
        /\ Len(Produced) = FullyRead
        /\ \A i \in 1..Len(Produced) : Carries(Produced[i], frames[i])

\* a 7-byte frame that arrived one byte per read has been enqueued in a clean run
C5_Witness ==
    /\ CleanRun
    /\ \E i \in 1..Len(enq) : enq[i].bytewise /\ Carries(enq[i].cmd, FrameI2c)

(* -------------------------------- C6 ---------------------------------- *)

\* a timeout has discarded bytes of a frame before frame f
CutBefore(f) == \E d \in droppedF : d < f

\* the frames the host sent whole are well formed, and the host sent nothing more
\* of a frame once a timeout had discarded bytes of it
Resynced == ~late /\ \A i \in 1..Len(frames) : i \in aborted \/ WellFormed(frames[i])

C7_Backpressure ==
    /\ [](Len(chan) <= CHANNEL_CAP)
    /\ [][ rx = "send" =>
             \/ /\ rx' = "send" /\ pending' = pending
                /\ buf' = buf /\ num_read' = num_read /\ lastRead' = lastRead
                /\ enq' = enq
                /\ chan' = chan \/ chan' = Tail(chan)
             \/ /\ rx' = "read"
                /\ Len(chan) < CHANNEL_CAP
                /\ chan' = Append(chan, pending) ]_vars

\* the queue is full and a ninth Command waits in the suspended send
C7_Witness == rx = "send" /\ Len(chan) = CHANNEL_CAP

(* -------------------------------- C8 ---------------------------------- *)

\* the Commands handed to execution so far, in order
Started == [i \in 1..Len(txlog) |-> txlog[i].cmd]
               \o (IF ctrl \in {"handle", "write"} THEN << cur >> ELSE << >>)

\* C8: Commands are executed, and their responses handed to write_packet, in the
\* order in which their frames were reassembled: what was started is a prefix of
\* what was enqueued, and the queue holds the rest in order.
C8_Ordering ==
    Started \o chan = [i \in 1..Len(enq) |-> enq[i].cmd]

\* two different Commands have been answered
C8_Witness == Len(txlog) >= 2 /\ txlog[1].cmd # txlog[2].cmd

(* -------------------------------- C9 ---------------------------------- *)

\* C9: never more responses than enqueued Commands, and once the input has ended
\* every enqueued Command has been answered.
C9_EveryCommandAnswered ==
    /\ [](Len(txlog) <= Len(enq))
    /\ <>[](Len(txlog) = Len(enq))

(* -------------------------------- C10 --------------------------------- *)

\* the error frame of the wire format: [length][target_id][code][message]
WireCode(e) ==
    CASE e.kind = "Timeout"        -> 16
      [] e.kind = "Invalid"        -> 17
      [] e.kind = "BufferOverflow" -> 18
      [] e.kind = "Message"        -> 255

WireMessage(e) == IF e.kind = "Message" THEN e.text ELSE << >>

\* what a host reads back from an error frame
ParseErrorFrame(b) ==
    [id |-> b[3], code |-> b[4], msg |-> SubSeq(b, 5, FromLE(b[1], b[2]))]

\* C10: every error response is [length u16 LE][target_id][code][message bytes]
\* with the code of its CommandError, the text of a Message and nothing otherwise,
\* and length the byte count of the frame; parsing it gives back the target_id,
\* the code and the message.
C10_ErrorEncoding ==
    \A i \in 1..Len(txlog) :
        ~txlog[i].res.ok =>
            LET e == txlog[i].res.err
                b == txlog[i].bytes
            IN  /\ b = U16LE(4 + Len(WireMessage(e)))
                         \o << AsU8(txlog[i].cmd.id), WireCode(e) >> \o WireMessage(e)
                /\ FromLE(b[1], b[2]) = Len(b)
                /\ ParseErrorFrame(b) = [id |-> AsU8(txlog[i].cmd.id), code |-> WireCode(e),
                                         msg |-> WireMessage(e)]

\* a Message("x") error for target_id 0x82 and an Invalid error for target_id -1
\* have been answered
C10_Witness ==
    /\ \E i \in 1..Len(txlog) :
          /\ txlog[i].res.err = ErrMessage(<< 120 >>)
          /\ txlog[i].bytes = << 5, 0, 130, 255, 120 >>
    /\ \E i \in 1..Len(txlog) :
          /\ txlog[i].res.err = ErrInvalid
          /\ txlog[i].bytes = << 4, 0, 255, 17 >>

(* -------------------------------- C11 --------------------------------- *)

\* the frame in which the bytes of the i-th enqueued Command start
Origin(i) == frames[enq[i].f]

\* the i-th enqueued Command was decoded from exactly the bytes of one well-formed
\* frame
FromWholeFrame(i) == enq[i].k = 0 /\ enq[i].pure /\ WellFormed(Origin(i))

UnknownTag(F) == F[5] \notin {I2C_COMMAND, GPIO_COMMAND, LED_COMMAND}

\* C11 (as stated): the response to a fully reassembled frame with an unrecognized
\* family_tag is an error response with error_code 0x11 whose target_id byte is
\* the target_id byte of that frame.
C11_UnknownTagKeepsId ==
    \A i \in 1..Len(txlog) :
        (FromWholeFrame(i) /\ UnknownTag(Origin(i))) =>
            /\ ~txlog[i].res.ok
            /\ txlog[i].bytes[4] = 17
            /\ txlog[i].bytes[3] = Origin(i)[3]

\* C11 (amended): the response to a fully reassembled frame with an unrecognized
\* family_tag is the error response [4, 0, 0xFF, 0x11]: error_code 0x11 (Invalid)
\* and target_id byte 0xFF (-1), whatever the target_id byte of the frame.
C11_UnknownTagReportedAsMinusOne ==
    \A i \in 1..Len(txlog) :
        (FromWholeFrame(i) /\ UnknownTag(Origin(i))) =>
            /\ ~txlog[i].res.ok
            /\ txlog[i].bytes = << 4, 0, 255, 17 >>

\* the frame with family_tag 0xEE and target_id 3 has been answered
C11_Witness ==
    \E i \in 1..Len(txlog) :
        FromWholeFrame(i) /\ Origin(i) = FrameBadTag /\ ~txlog[i].res.ok

(* -------------------------------- C12 --------------------------------- *)

\* C12: target_id -1 (byte 0xFF) is reserved for frames that failed to decode: an
\* error response carries the target_id byte 0xFF if and only if the frame it
\* answers failed to decode.
C12_MinusOneReserved ==
    \A i \in 1..Len(txlog) :
        (FromWholeFrame(i) /\ ~txlog[i].res.ok) =>
            (txlog[i].bytes[3] = 255 <=> ~ValidFrame(Origin(i)))

(* -------------------------------- C13 --------------------------------- *)

\* a read is about to complete a frame whose declared length is below the header
ShortFrameCompletes ==
    /\ ~panicked /\ rx = "read" /\ connected /\ wire # << >>
    /\ LET b  == ReadInto(buf, num_read, Head(wire))
           nr == num_read + Len(Head(wire))
       IN  nr >= MIN_HEADER /\ b[1].v + 256 * b[2].v < MIN_HEADER

\* C13: when a read completes a frame whose declared length is less than 5, so
\* that the Decoder gets fewer than 3 bytes, the firmware does not fault and the
\* Reassembler produces the error Command with body Invalid and goes on.
C13_ShortInputIsInvalid ==
    [][ (ShortFrameCompletes /\ wire' = Tail(wire) /\ connected')
        => /\ ~panicked'
           /\ rx' \in {"read", "send"}
           /\ Len(Produced') = Len(Produced) + 1
           /\ Produced'[Len(Produced')] = MkCommand(-1, 0, ErrorInner(ErrInvalid)) ]_vars

(* -------------------------------- C14 --------------------------------- *)

\* a read takes a packet while the buffer starts with the first bytes of a frame
\* whose declared length exceeds the buffer
OversizeFrameRead ==
    /\ ~panicked /\ rx = "read" /\ connected /\ connected'
    /\ wire # << >> /\ wire' = Tail(wire)
    /\ LET b == ReadInto(buf, num_read, Head(wire))
       IN  /\ num_read + Len(Head(wire)) >= MIN_HEADER
           /\ b[1].k = 0 /\ b[2].k = 1 /\ b[2].f = b[1].f
           /\ b[1].v + 256 * b[2].v > BUF_SIZE

\* C14: however many bytes of a frame with declared_length > 4098 the host sends,
\* reading them never faults, and when the last of them has been read the
\* Reassembler has produced an error Command with body Invalid or BufferOverflow.
C14_OversizeIsDecodeError ==
    [][ OversizeFrameRead
        => /\ ~panicked'
           /\ lastRead'.k = Len(frames[lastRead'.f]) - 1
                => /\ Len(Produced') = Len(Produced) + 1
                   /\ LET c == Produced'[Len(Produced')]
                      IN  c.inner.fam = "Error"
                          /\ c.inner.err \in {ErrInvalid, ErrBufferOverflow} ]_vars

(* -------------------------------- C15 --------------------------------- *)

\* number of Commands taken from the queue and not yet answered
InFlight == Len(enq) - Len(chan) - Len(txlog)

\* C15: at most one Command is in execution at any time, and one is exactly while
\* the Controller is in a handler or writing its response; a Command is dequeued
\* only when every Command dequeued before it has had its response handed to the
\* transmit path; and the peripherals change only in a step of the Controller in
\* its handler, by the operation of the Command in execution, a step that leaves
\* the Reassembler's state alone.
C15_SequentialExecution ==
    /\ [](InFlight \in {0, 1})
    /\ [](InFlight = 1 <=> ctrl \in {"handle", "write"})
    /\ [][ Len(chan') < Len(chan) => (InFlight = 0 /\ cur' = Head(chan)) ]_vars
    /\ [][ periph' # periph
             => /\ ctrl = "handle" /\ InFlight = 1
                /\ periph' = Append(periph, [fam |-> cur.inner.fam, bus |-> cur.bus,
                                             data |-> cur.inner.data])
                /\ rxVars' = rxVars /\ chan' = chan ]_vars

\* a Command is in its handler after another was answered and a handler changed
\* the peripherals, while a third waits in the queue
C15_Witness ==
    /\ ctrl = "handle" /\ Len(txlog) >= 1 /\ Len(periph) >= 1 /\ Len(chan) >= 1

(* -------------------------------- C16 --------------------------------- *)

\* C16: when write_packet fails (the endpoint is disabled) the Controller records
\* nothing but the attempt and is back at receive, ready for the next Command: it
\* does not fault, the failed response is not written again (the responses
\* attempted are those of the enqueued Commands, one each, in order), and the
\* queue, the Reassembler, the peripherals and the session are unchanged.
C16_TransmitFailureSwallowed ==
    /\ [][ (ctrl = "write" /\ ~connected /\ txlog' # txlog)
             => /\ txlog' = Append(txlog, [cmd |-> cur, res |-> res, bytes |-> out,
                                           sent |-> FALSE])
                /\ ctrl' = "receive"
                /\ ~panicked'
                /\ chan' = chan /\ rxVars' = rxVars /\ periph' = periph
                /\ task' = task /\ hostVars' = hostVars ]_vars
    /\ [](/\ Len(txlog) <= Len(enq)
          /\ \A i \in 1..Len(txlog) : txlog[i].cmd = enq[i].cmd)

\* a response whose transmit failed was followed by the response to the next
\* Command
C16_Witness ==
    \E i \in 1..Len(txlog) :
        /\ ~txlog[i].sent
        /\ i < Len(txlog)
        /\ txlog[i + 1].cmd # txlog[i].cmd

(* -------------------------------- C17 --------------------------------- *)

\* a step in which a read of the Reassembler ends with no packet: the Reassembler
\* is reading, nothing is on the wire, the host does nothing, and the fill count
\* or its history changes
TimeoutStep ==
    /\ ~panicked /\ rx = "read" /\ connected /\ connected'
    /\ wire = << >> /\ wire' = << >> /\ hostQ' = hostQ
    /\ \/ num_read' # num_read
       \/ reads' # reads
       \/ droppedF' # droppedF
       \/ stalling /\ ~stalling'

\* C17: a read timeout sets the fill count to 0 and does nothing else: no Command
\* is enqueued or left waiting, no response is written, the queue is unchanged,
\* the Controller and the Command it is executing are untouched, the buffer's
\* bytes stay, and the Reassembler goes on reading.
C17_TimeoutOnlyResets ==
    [][ TimeoutStep
        => /\ num_read' = 0
           /\ buf' = buf
           /\ enq' = enq /\ pending' = pending /\ chan' = chan
           /\ txlog' = txlog
           /\ ctrl' = ctrl /\ cur' = cur /\ res' = res /\ out' = out /\ periph' = periph
           /\ rx' = "read" /\ task' = task
           /\ ~panicked' ]_vars

\* a timeout has discarded the first byte of the second frame while the Command
\* of the first is in its handler
C17_Witness ==
    /\ 2 \in droppedF /\ num_read = 0 /\ Len(buf) = 1 /\ buf[1].f = 2
    /\ ctrl = "handle" /\ Len(enq) = 1 /\ txlog = << >>

(* -------------------------------- C18 --------------------------------- *)

\* the bytes of the response to result r: 3 bytes and the payload, or 4 bytes and
\* the text of a Message
ContentLen(r) ==
    IF r.ok THEN 3 + Len(r.data)
    ELSE 4 + (IF r.err.kind = "Message" THEN Len(r.err.text) ELSE 0)

\* C18: encoding a response never faults; when the content does not fit the 260
\* bytes of the output the response is the BufferOverflow error [4, 0, id, 0x12]
\* for that Command, and when it fits nothing of it is cut off.
C18_EncodeOverflowReported ==
    [][ (~panicked /\ ctrl = "handle" /\ (ctrl' = "write" \/ panicked'))
        => /\ ~panicked'
           /\ IF ContentLen(res') > OUT_CAP
              THEN out' = << 4, 0, cur.id % 256, 18 >>
              ELSE Len(out') = ContentLen(res') ]_vars

(* -------------------------------- C19 --------------------------------- *)

\* the buffer and the fill count the Reassembler works on in this step: after the
\* packet it takes from the wire, or as they are when it resumes a suspended send
StepBuf == IF rx = "send" THEN buf ELSE ReadInto(buf, num_read, Head(wire))

StepFill == IF rx = "send" THEN num_read ELSE num_read + Len(Head(wire))

\* declared_length: bytes [0..2] of the buffer as u16 little-endian
StepDeclared == StepBuf[1].v + 256 * StepBuf[2].v

\* what the Decoder makes of bytes [2..declared_length) of the buffer
StepDecoded ==
    LET r == FromBytes([j \in 1..(StepDeclared - 2) |-> StepBuf[j + 2].v])
    IN  IF r.ok THEN r.cmd ELSE MkCommand(-1, 0, ErrorInner(r.err))

\* C19: the Decoder runs (a Command is produced, or decoding panics) only in a
\* step with filled >= 5 and filled >= declared_length, and the Command produced
\* is what the Decoder makes of exactly bytes [2..declared_length); when the
\* Command is enqueued, filled becomes filled - declared_length and bytes
\* [0..filled) of the buffer become the old bytes [declared_length..old filled).
C19_DecoderGating ==
    /\ [][ (rx = "read" /\ wire # << >> /\ Len(Produced') = Len(Produced) + 1)
             => /\ StepFill >= 5 /\ StepFill >= StepDeclared
                /\ Produced'[Len(Produced')] = StepDecoded ]_vars
    /\ [][ (rx = "read" /\ wire # << >> /\ wire' = Tail(wire) /\ ~panicked /\ panicked'
               /\ Len(Head(wire)) <= BUF_SIZE - num_read)
             => (StepFill >= 5 /\ StepFill >= StepDeclared) ]_vars
    /\ [][ Len(enq') = Len(enq) + 1
             => /\ StepFill >= 5 /\ StepFill >= StepDeclared
                /\ num_read' = StepFill - StepDeclared
                /\ \A i \in 1..num_read' : buf'[i] = StepBuf[StepDeclared + i] ]_vars

\* the first frame of a packet has been enqueued and the bytes of the second
\* frame, which came in the same packet, are at the front of the buffer
C19_Witness ==
    /\ multi /\ Len(enq) = 1 /\ enq[1].f = 1
    /\ num_read = Len(frames[2])
    /\ \A i \in 1..num_read : buf[i].f = 2 /\ buf[i].k = i - 1

(* -------------------------------- C20 --------------------------------- *)

\* C20: the response, success or error, to a request frame that decodes
\* successfully carries in its target_id byte the target_id byte of that frame,
\* for every byte value 0..255: byte -> i8 -> byte is the identity.
C20_IdByteRoundTrip ==
    \A i \in 1..Len(txlog) :
        (FromWholeFrame(i) /\ ValidFrame(Origin(i))) =>
            txlog[i].bytes[3] = Origin(i)[3]

\* the frame with target_id byte 0xC8 (as i8: -56) has been answered with an
\* error response
C20_Witness ==
    \E i \in 1..Len(txlog) :
        /\ FromWholeFrame(i) /\ Origin(i) = IdFrame(200)
        /\ txlog[i].cmd.id = -56
        /\ txlog[i].bytes = << 4, 0, 200, 16 >>

====
